---- MODULE Spec2Model ----
(***************************************************************************)
(* Model of nio.crypto.key_verification_framework.KeyVerificationFramework *)
(* (matrix-nio): the state machine of one key verification transaction.    *)
(*                                                                         *)
(* Every method of the class is an operator from the object (a record of   *)
(* its fields) and the arguments to the outcome of the call: the object    *)
(* as the call leaves it, the messages it returns and the error it raises. *)
(* The actions apply one method to the transaction and record the call.    *)
(***************************************************************************)
EXTENDS Integers, Sequences, FiniteSets

(* ---- bounds ---- *)

\* number of distinct peer devices a caller can name
NumDevices == 3

(* ---- inputs ---- *)

OlmDevice(user_id, id) == [user_id |-> user_id, id |-> id]

\* the peer devices the caller passes to the methods; a device id is a number
Devices == {OlmDevice("@bob:example.org", id) : id \in 1..NumDevices}

OwnDevices == {"JLAFKJWSCS"}

TransactionIds == {"txn1", "txn2"}

\* the values time_ns() // 1_000_000 can take when request_verification reads the clock
Timestamps == {0, 1}

(* ---- KVFState ---- *)

CREATED == "CREATED"
REQUESTED == "REQUESTED"
READY == "READY"
CANCELED == "CANCELED"
DONE == "DONE"

KVFState == {CREATED, REQUESTED, READY, CANCELED, DONE}

(* ---- class constants ---- *)

sas_method_v1 == "m.sas.v1"

user_cancel_error == <<"m.user", "Canceled by user">>

user_accepted_reason ==
    <<"m.accepted", "Key verification request was accepted by another device.">>

(* ---- outcome of a call ---- *)

NoError == "none"

\* the call returns normally with the object as it is now and these messages
Return(self, messages) == [self |-> self, messages |-> messages, error |-> NoError]

\* raise LocalProtocolError(text): nothing is returned, the object stays as
\* the statements executed before the raise left it
Raise(self, text) == [self |-> self, messages |-> <<>>, error |-> text]

ToDeviceMessage(type, recipient, recipient_device, content) ==
    [type |-> type, recipient |-> recipient,
     recipient_device |-> recipient_device, content |-> content]

(* ---- constructors ---- *)

KVF(own, transaction_id) ==
    [state |-> CREATED,
     own_device |-> own,
     devices |-> <<>>,
     we_requested_it |-> TRUE,
     transaction_id |-> transaction_id]

\* variant: the requesting device is not put on the roster
from_key_verification_request_no_append(own, transaction_id, requesting_device) ==
    LET obj == KVF(own, transaction_id)
        obj1 == [obj EXCEPT !.we_requested_it = FALSE]
    IN [obj1 EXCEPT !.state = REQUESTED]

from_key_verification_request(own, transaction_id, requesting_device) ==
    LET obj == KVF(own, transaction_id)
        obj1 == [obj EXCEPT !.we_requested_it = FALSE]
        obj2 == [obj1 EXCEPT !.state = REQUESTED]
    IN [obj2 EXCEPT !.devices = Append(@, requesting_device)]

(* ---- helpers ---- *)

\* device in self.devices
Contains(devs, device) == \E i \in 1..Len(devs) : devs[i] = device

\* variant: the cancel message carries the own device id as transaction id
_create_cancel_message_wrong_id(self, other_device, reason) ==
    LET cancel_code == reason[1]
        cancel_reason == reason[2]
        content == [code |-> cancel_code,
                    reason |-> cancel_reason,
                    transaction_id |-> self.own_device]
    IN ToDeviceMessage("m.key.verification.cancel",
                       other_device.user_id, other_device.id, content)

_create_cancel_message(self, other_device, reason) ==
    LET cancel_code == reason[1]
        cancel_reason == reason[2]
        content == [code |-> cancel_code,
                    reason |-> cancel_reason,
                    transaction_id |-> self.transaction_id]
    IN ToDeviceMessage("m.key.verification.cancel",
                       other_device.user_id, other_device.id, content)

(* ---- methods ---- *)

\* variant: the state is checked before the role
request_verification_state_first(self, device, now) ==
    IF self.state # CREATED /\ self.state # REQUESTED
    THEN Raise(self, "Key verification request already accepted.")
    ELSE IF ~self.we_requested_it
    THEN Raise(self, "Request was not started by us, can't start another request.")
    ELSE IF Contains(self.devices, device)
    THEN Raise(self, "Already requested device.")
    ELSE LET s1 == [self EXCEPT !.state = REQUESTED]
             s2 == [s1 EXCEPT !.devices = Append(@, device)]
             content == [from_device |-> s2.own_device,
                         methods |-> <<sas_method_v1>>,
                         transaction_id |-> s2.transaction_id,
                         timestamp |-> now]
             message == ToDeviceMessage("m.key.verification.request",
                                        device.user_id, device.id, content)
         IN Return(s2, <<message>>)

\* variant: the device is inserted at the front of the roster
request_verification_prepend(self, device, now) ==
    IF ~self.we_requested_it
    THEN Raise(self, "Request was not started by us, can't start another request.")
    ELSE IF self.state # CREATED /\ self.state # REQUESTED
    THEN Raise(self, "Key verification request already accepted.")
    ELSE IF Contains(self.devices, device)
    THEN Raise(self, "Already requested device.")
    ELSE LET s1 == [self EXCEPT !.state = REQUESTED]
             s2 == [s1 EXCEPT !.devices = <<device>> \o @]
             content == [from_device |-> s2.own_device,
                         methods |-> <<sas_method_v1>>,
                         transaction_id |-> s2.transaction_id,
                         timestamp |-> now]
             message == ToDeviceMessage("m.key.verification.request",
                                        device.user_id, device.id, content)
         IN Return(s2, <<message>>)

\* variant: a device already on the roster is accepted again
request_verification_no_duplicate_check(self, device, now) ==
    IF ~self.we_requested_it
    THEN Raise(self, "Request was not started by us, can't start another request.")
    ELSE IF self.state # CREATED /\ self.state # REQUESTED
    THEN Raise(self, "Key verification request already accepted.")
    ELSE LET s1 == [self EXCEPT !.state = REQUESTED]
             s2 == [s1 EXCEPT !.devices = Append(@, device)]
             content == [from_device |-> s2.own_device,
                         methods |-> <<sas_method_v1>>,
                         transaction_id |-> s2.transaction_id,
                         timestamp |-> now]
             message == ToDeviceMessage("m.key.verification.request",
                                        device.user_id, device.id, content)
         IN Return(s2, <<message>>)

\* variant: the role is not checked
request_verification_no_role_check(self, device, now) ==
    IF self.state # CREATED /\ self.state # REQUESTED
    THEN Raise(self, "Key verification request already accepted.")
    ELSE IF Contains(self.devices, device)
    THEN Raise(self, "Already requested device.")
    ELSE LET s1 == [self EXCEPT !.state = REQUESTED]
             s2 == [s1 EXCEPT !.devices = Append(@, device)]
             content == [from_device |-> s2.own_device,
                         methods |-> <<sas_method_v1>>,
                         transaction_id |-> s2.transaction_id,
                         timestamp |-> now]
             message == ToDeviceMessage("m.key.verification.request",
                                        device.user_id, device.id, content)
         IN Return(s2, <<message>>)

request_verification(self, device, now) ==
    IF ~self.we_requested_it
    THEN Raise(self, "Request was not started by us, can't start another request.")
    ELSE IF self.state # CREATED /\ self.state # REQUESTED
    THEN Raise(self, "Key verification request already accepted.")
    ELSE IF Contains(self.devices, device)
    THEN Raise(self, "Already requested device.")
    ELSE LET s1 == [self EXCEPT !.state = REQUESTED]
             s2 == [s1 EXCEPT !.devices = Append(@, device)]
             content == [from_device |-> s2.own_device,
                         methods |-> <<sas_method_v1>>,
                         transaction_id |-> s2.transaction_id,
                         timestamp |-> now]
             message == ToDeviceMessage("m.key.verification.request",
                                        device.user_id, device.id, content)
         IN Return(s2, <<message>>)

\* variant: only a canceled request is refused
accept_verification_request_no_state_check(self) ==
    IF self.we_requested_it
    THEN Raise(self, "Verification request was send by us, can't accept offer.")
    ELSE IF self.state = CANCELED
    THEN Raise(self, "Request was canceled before receiving ready message.")
    ELSE IF Len(self.devices) = 0
    THEN Raise(self, "IndexError")
    ELSE LET other_device == self.devices[1]
             content == [from_device |-> self.own_device,
                         methods |-> <<sas_method_v1>>,
                         transaction_id |-> self.transaction_id]
             message == ToDeviceMessage("m.key.verification.ready",
                                        other_device.user_id, other_device.id, content)
             s1 == [self EXCEPT !.state = READY]
         IN Return(s1, <<message>>)

accept_verification_request(self) ==
    IF self.we_requested_it
    THEN Raise(self, "Verification request was send by us, can't accept offer.")
    ELSE IF self.state = CANCELED
    THEN Raise(self, "Request was canceled before receiving ready message.")
    ELSE IF self.state # REQUESTED
    THEN Raise(self, "Request already accepted.")
    ELSE IF Len(self.devices) = 0
    THEN Raise(self, "IndexError")
    ELSE LET other_device == self.devices[1]
             content == [from_device |-> self.own_device,
                         methods |-> <<sas_method_v1>>,
                         transaction_id |-> self.transaction_id]
             message == ToDeviceMessage("m.key.verification.ready",
                                        other_device.user_id, other_device.id, content)
             s1 == [self EXCEPT !.state = READY]
         IN Return(s1, <<message>>)

\* variant: the loop does not skip the accepting device
RECURSIVE accepted_cancel_messages_no_skip(_, _, _)
accepted_cancel_messages_no_skip(self, devs, accepting_device) ==
    IF devs = <<>>
    THEN <<>>
    ELSE <<_create_cancel_message(self, Head(devs), user_accepted_reason)>>
         \o accepted_cancel_messages_no_skip(self, Tail(devs), accepting_device)

\* the loop of verification_request_accepted over the roster devs
RECURSIVE accepted_cancel_messages(_, _, _)
accepted_cancel_messages(self, devs, accepting_device) ==
    IF devs = <<>>
    THEN <<>>
    ELSE IF accepting_device = Head(devs)
    THEN accepted_cancel_messages(self, Tail(devs), accepting_device)
    ELSE <<_create_cancel_message(self, Head(devs), user_accepted_reason)>>
         \o accepted_cancel_messages(self, Tail(devs), accepting_device)

\* variant: the state is set before the accepting device is looked up
verification_request_accepted_early_ready(self, accepting_device) ==
    IF ~self.we_requested_it
    THEN Raise(self, "Request was not initialized by us, but we received an unexpected ready message.")
    ELSE IF self.state = CREATED
    THEN Raise(self, "Cannot accept before sending a request.")
    ELSE IF self.state = CANCELED
    THEN Raise(self, "Request was canceled before receiving ready message.")
    ELSE IF self.state # REQUESTED
    THEN Raise(self, "Request already accepted.")
    ELSE LET s0 == [self EXCEPT !.state = READY]
         IN IF ~Contains(s0.devices, accepting_device)
            THEN Raise(s0, "Received key verification ready from unknown device.")
            ELSE LET messages == accepted_cancel_messages(s0, s0.devices, accepting_device)
                     s1 == [s0 EXCEPT !.devices = <<accepting_device>>]
                 IN Return(s1, messages)

\* variant: the accepting device is not looked up on the roster
verification_request_accepted_no_membership_check(self, accepting_device) ==
    IF ~self.we_requested_it
    THEN Raise(self, "Request was not initialized by us, but we received an unexpected ready message.")
    ELSE IF self.state = CREATED
    THEN Raise(self, "Cannot accept before sending a request.")
    ELSE IF self.state = CANCELED
    THEN Raise(self, "Request was canceled before receiving ready message.")
    ELSE IF self.state # REQUESTED
    THEN Raise(self, "Request already accepted.")
    ELSE LET messages == accepted_cancel_messages(self, self.devices, accepting_device)
             s1 == [self EXCEPT !.devices = <<accepting_device>>]
             s2 == [s1 EXCEPT !.state = READY]
         IN Return(s2, messages)

\* variant: a ready message is still taken after the request was accepted
verification_request_accepted_no_ready_check(self, accepting_device) ==
    IF ~self.we_requested_it
    THEN Raise(self, "Request was not initialized by us, but we received an unexpected ready message.")
    ELSE IF self.state = CREATED
    THEN Raise(self, "Cannot accept before sending a request.")
    ELSE IF self.state = CANCELED
    THEN Raise(self, "Request was canceled before receiving ready message.")
    ELSE IF self.state = DONE
    THEN Raise(self, "Request already accepted.")
    ELSE IF ~Contains(self.devices, accepting_device)
    THEN Raise(self, "Received key verification ready from unknown device.")
    ELSE LET messages == accepted_cancel_messages(self, self.devices, accepting_device)
             s1 == [self EXCEPT !.devices = <<accepting_device>>]
             s2 == [s1 EXCEPT !.state = READY]
         IN Return(s2, messages)

\* variant: the roster is not collapsed to the accepting device
verification_request_accepted_keeps_roster(self, accepting_device) ==
    IF ~self.we_requested_it
    THEN Raise(self, "Request was not initialized by us, but we received an unexpected ready message.")
    ELSE IF self.state = CREATED
    THEN Raise(self, "Cannot accept before sending a request.")
    ELSE IF self.state = CANCELED
    THEN Raise(self, "Request was canceled before receiving ready message.")
    ELSE IF self.state # REQUESTED
    THEN Raise(self, "Request already accepted.")
    ELSE IF ~Contains(self.devices, accepting_device)
    THEN Raise(self, "Received key verification ready from unknown device.")
    ELSE LET messages == accepted_cancel_messages(self, self.devices, accepting_device)
             s2 == [self EXCEPT !.state = READY]
         IN Return(s2, messages)

\* variant: the other devices of the roster are not told
verification_request_accepted_no_cancels(self, accepting_device) ==
    IF ~self.we_requested_it
    THEN Raise(self, "Request was not initialized by us, but we received an unexpected ready message.")
    ELSE IF self.state = CREATED
    THEN Raise(self, "Cannot accept before sending a request.")
    ELSE IF self.state = CANCELED
    THEN Raise(self, "Request was canceled before receiving ready message.")
    ELSE IF self.state # REQUESTED
    THEN Raise(self, "Request already accepted.")
    ELSE IF ~Contains(self.devices, accepting_device)
    THEN Raise(self, "Received key verification ready from unknown device.")
    ELSE LET messages == <<>>
             s1 == [self EXCEPT !.devices = <<accepting_device>>]
             s2 == [s1 EXCEPT !.state = READY]
         IN Return(s2, messages)

verification_request_accepted(self, accepting_device) ==
    IF ~self.we_requested_it
    THEN Raise(self, "Request was not initialized by us, but we received an unexpected ready message.")
    ELSE IF self.state = CREATED
    THEN Raise(self, "Cannot accept before sending a request.")
    ELSE IF self.state = CANCELED
    THEN Raise(self, "Request was canceled before receiving ready message.")
    ELSE IF self.state # REQUESTED
    THEN Raise(self, "Request already accepted.")
    ELSE IF ~Contains(self.devices, accepting_device)
    THEN Raise(self, "Received key verification ready from unknown device.")
    ELSE LET messages == accepted_cancel_messages(self, self.devices, accepting_device)
             s1 == [self EXCEPT !.devices = <<accepting_device>>]
             s2 == [s1 EXCEPT !.state = READY]
         IN Return(s2, messages)

\* the loop of cancel_verification and process_cancellation over the roster devs
RECURSIVE user_cancel_messages(_, _)
user_cancel_messages(self, devs) ==
    IF devs = <<>>
    THEN <<>>
    ELSE <<_create_cancel_message(self, Head(devs), user_cancel_error)>>
         \o user_cancel_messages(self, Tail(devs))

\* variant: a finished verification can still be canceled
cancel_verification_after_done(self, other_device) ==
    IF self.state = CANCELED
    THEN Raise(self, "Verification request already canceled.")
    ELSE LET s1 == [self EXCEPT !.state = CANCELED]
             messages == user_cancel_messages(s1, s1.devices)
         IN Return(s1, messages)

\* variant: only the device passed as argument is notified
cancel_verification_only_argument(self, other_device) ==
    IF self.state = DONE
    THEN Raise(self, "Verification already done, can't cancel it afterwards.")
    ELSE IF self.state = CANCELED
    THEN Raise(self, "Verification request already canceled.")
    ELSE LET s1 == [self EXCEPT !.state = CANCELED]
             messages == <<_create_cancel_message(s1, other_device, user_cancel_error)>>
         IN Return(s1, messages)

\* variant: a transaction that has requested nothing cannot be canceled
cancel_verification_rejects_created(self, other_device) ==
    IF self.state = DONE
    THEN Raise(self, "Verification already done, can't cancel it afterwards.")
    ELSE IF self.state = CANCELED
    THEN Raise(self, "Verification request already canceled.")
    ELSE IF self.state = CREATED
    THEN Raise(self, "Nothing requested yet.")
    ELSE LET s1 == [self EXCEPT !.state = CANCELED]
             messages == user_cancel_messages(s1, s1.devices)
         IN Return(s1, messages)

cancel_verification(self, other_device) ==
    IF self.state = DONE
    THEN Raise(self, "Verification already done, can't cancel it afterwards.")
    ELSE IF self.state = CANCELED
    THEN Raise(self, "Verification request already canceled.")
    ELSE LET s1 == [self EXCEPT !.state = CANCELED]
             messages == user_cancel_messages(s1, s1.devices)
         IN Return(s1, messages)

\* variant: a finished verification is canceled by the peer's cancel
process_cancellation_no_done_check(self) ==
    IF self.state = CANCELED
    THEN Raise(self, "Key verification already canceled")
    ELSE LET s1 == [self EXCEPT !.state = CANCELED]
         IN IF ~s1.we_requested_it
            THEN Return(s1, <<>>)
            ELSE Return(s1, user_cancel_messages(s1, s1.devices))

\* variant: a Responder answers the peer's cancel with cancel messages too
process_cancellation_responder_notifies(self) ==
    IF self.state = CANCELED
    THEN Raise(self, "Key verification already canceled")
    ELSE IF self.state = DONE
    THEN Raise(self, "We cannot cancel finished key verifications.")
    ELSE LET s1 == [self EXCEPT !.state = CANCELED]
         IN Return(s1, user_cancel_messages(s1, s1.devices))

process_cancellation(self) ==
    IF self.state = CANCELED
    THEN Raise(self, "Key verification already canceled")
    ELSE IF self.state = DONE
    THEN Raise(self, "We cannot cancel finished key verifications.")
    ELSE LET s1 == [self EXCEPT !.state = CANCELED]
         IN IF ~s1.we_requested_it
            THEN Return(s1, <<>>)
            ELSE Return(s1, user_cancel_messages(s1, s1.devices))

\* variant: the state is not required to be Ready
verification_done_no_ready_check(self) ==
    IF self.state = CANCELED
    THEN Raise(self, "Key verification was canceled before finished")
    ELSE IF self.state = DONE
    THEN Raise(self, "Key verification already finished")
    ELSE IF Len(self.devices) = 0
    THEN Raise(self, "IndexError")
    ELSE LET message == ToDeviceMessage("m.key.verification.done",
                                        self.devices[1].user_id, self.devices[1].id,
                                        [transaction_id |-> self.transaction_id])
             s1 == [self EXCEPT !.state = DONE]
         IN Return(s1, <<message>>)

verification_done(self) ==
    IF self.state = CANCELED
    THEN Raise(self, "Key verification was canceled before finished")
    ELSE IF self.state = DONE
    THEN Raise(self, "Key verification already finished")
    ELSE IF self.state # READY
    THEN Raise(self, "Key verification not finished")
    ELSE IF Len(self.devices) = 0
    THEN Raise(self, "IndexError")
    ELSE LET message == ToDeviceMessage("m.key.verification.done",
                                        self.devices[1].user_id, self.devices[1].id,
                                        [transaction_id |-> self.transaction_id])
             s1 == [self EXCEPT !.state = DONE]
         IN Return(s1, <<message>>)

\* the properties done and canceled
done(self) == self.state = DONE

canceled(self) == self.state = CANCELED

(* ---- the transaction ---- *)

VARIABLES state, own_device, devices, we_requested_it, transaction_id,
          pre, call, result, sent, origin,
          kvfs, net, last

\* the variables of the single transaction
txvars == <<state, own_device, devices, we_requested_it, transaction_id,
            pre, call, result, sent, origin>>

\* the variables of the system of three transactions
sysvars == <<kvfs, net, last>>

vars == <<txvars, sysvars>>

\* the object, as a record of its fields
Self ==
    [state |-> state,
     own_device |-> own_device,
     devices |-> devices,
     we_requested_it |-> we_requested_it,
     transaction_id |-> transaction_id]

NoDevice == "no device"

\* a call of a method on the transaction: the object takes the fields the
\* call left, pre keeps the object as it was when the call started, result
\* what came back, and sent every message returned so far; origin keeps the
\* constructor call that made the object
Called(op, arg, out) ==
    /\ state' = out.self.state
    /\ own_device' = out.self.own_device
    /\ devices' = out.self.devices
    /\ we_requested_it' = out.self.we_requested_it
    /\ transaction_id' = out.self.transaction_id
    /\ pre' = Self
    /\ call' = [op |-> op, arg |-> arg]
    /\ result' = [messages |-> out.messages, error |-> out.error]
    /\ sent' = sent \o out.messages
    /\ origin' = origin
    /\ UNCHANGED sysvars

Constructed(op, arg, obj) ==
    /\ state = obj.state
    /\ own_device = obj.own_device
    /\ devices = obj.devices
    /\ we_requested_it = obj.we_requested_it
    /\ transaction_id = obj.transaction_id
    /\ pre = obj
    /\ call = [op |-> op, arg |-> arg]
    /\ result = [messages |-> <<>>, error |-> NoError]
    /\ sent = <<>>
    /\ origin = [op |-> op, arg |-> arg, self |-> obj]

(* ---- the system: an Initiator and the Responders of two requested devices ---- *)

Responders == {"B1", "B2"}

Parties == {"A"} \cup Responders

alice_device == OlmDevice("@alice:example.org", 0)

bob_device == OlmDevice("@bob:example.org", 1)

bob_device_2 == OlmDevice("@bob:example.org", 2)

\* the device each party runs on
PartyDevice ==
    [p \in Parties |->
        CASE p = "A" -> alice_device
          [] p = "B1" -> bob_device
          [] p = "B2" -> bob_device_2]

SysDevices == {PartyDevice[p] : p \in Parties}

\* the party a message is addressed to
Recipient(m) ==
    CHOOSE p \in Parties :
        m.recipient = PartyDevice[p].user_id /\ m.recipient_device = PartyDevice[p].id

\* the Initiator after request_verification(bob_device) and
\* request_verification(bob_device_2)
Requester(tid) ==
    LET a0 == KVF(alice_device.id, tid)
        a1 == request_verification(a0, bob_device, 0).self
    IN request_verification(a1, bob_device_2, 0).self

\* the requests are delivered: every requested device holds a Responder
SysStart ==
    /\ kvfs = [p \in Parties |->
                  IF p = "A"
                  THEN Requester("txn1")
                  ELSE from_key_verification_request(PartyDevice[p].id, "txn1", alice_device)]
    /\ net = <<>>
    /\ last = [by |-> "A", op |-> "request_verification", error |-> NoError]

\* the messages msgs as the transport takes them from the party p
Outgoing(p, msgs) == [i \in 1..Len(msgs) |-> [sender |-> PartyDevice[p], msg |-> msgs[i]]]

\* the in-flight messages without the i-th
Remove(seq, i) == SubSeq(seq, 1, i - 1) \o SubSeq(seq, i + 1, Len(seq))

\* the party p calls a method of its transaction; an error is ignored
SysCalled(p, op, out, rest) ==
    /\ kvfs' = [kvfs EXCEPT ![p] = out.self]
    /\ net' = rest \o Outgoing(p, out.messages)
    /\ last' = [by |-> p, op |-> op, error |-> out.error]
    /\ UNCHANGED txvars

RespRequestVerification ==
    \E p \in Responders, device \in SysDevices, now \in Timestamps :
        SysCalled(p, "request_verification",
                  request_verification(kvfs[p], device, now), net)

RespAcceptVerificationRequest ==
    \E p \in Responders :
        SysCalled(p, "accept_verification_request",
                  accept_verification_request(kvfs[p]), net)

RespVerificationRequestAccepted ==
    \E p \in Responders, accepting_device \in SysDevices :
        SysCalled(p, "verification_request_accepted",
                  verification_request_accepted(kvfs[p], accepting_device), net)

RespCancelVerification ==
    \E p \in Responders, other_device \in SysDevices :
        SysCalled(p, "cancel_verification",
                  cancel_verification(kvfs[p], other_device), net)

RespProcessCancellation ==
    \E p \in Responders :
        SysCalled(p, "process_cancellation", process_cancellation(kvfs[p]), net)

RespVerificationDone ==
    \E p \in Responders :
        SysCalled(p, "verification_done", verification_done(kvfs[p]), net)

\* a ready message arrives: verification_request_accepted(sender)
DeliverReady ==
    \E i \in 1..Len(net) :
        /\ net[i].msg.type = "m.key.verification.ready"
        /\ LET p == Recipient(net[i].msg)
           IN SysCalled(p, "deliver ready",
                        verification_request_accepted(kvfs[p], net[i].sender),
                        Remove(net, i))

\* a cancel message arrives: process_cancellation()
DeliverCancel ==
    \E i \in 1..Len(net) :
        /\ net[i].msg.type = "m.key.verification.cancel"
        /\ LET p == Recipient(net[i].msg)
           IN SysCalled(p, "deliver cancel", process_cancellation(kvfs[p]),
                        Remove(net, i))

\* a done message arrives: the class has no method for it
DeliverDone ==
    \E i \in 1..Len(net) :
        /\ net[i].msg.type = "m.key.verification.done"
        /\ LET p == Recipient(net[i].msg)
           IN SysCalled(p, "deliver done", Return(kvfs[p], <<>>), Remove(net, i))

SysInit ==
    /\ SysStart
    /\ Constructed("__init__", NoDevice, KVF("JLAFKJWSCS", "txn1"))

SysNext ==
    \/ RespRequestVerification
    \/ RespAcceptVerificationRequest
    \/ RespVerificationRequestAccepted
    \/ RespCancelVerification
    \/ RespProcessCancellation
    \/ RespVerificationDone
    \/ DeliverReady
    \/ DeliverCancel
    \/ DeliverDone

SysSpec == SysInit /\ [][SysNext]_vars

(* ---- the single transaction, any caller ---- *)

Init ==
    /\ SysStart
    /\ \E own \in OwnDevices, tid \in TransactionIds :
           \/ Constructed("__init__", NoDevice, KVF(own, tid))
           \/ \E requesting_device \in Devices :
                  Constructed("from_key_verification_request", requesting_device,
                              from_key_verification_request(own, tid, requesting_device))

RequestVerification ==
    \E device \in Devices, now \in Timestamps :
        Called("request_verification", device, request_verification(Self, device, now))

AcceptVerificationRequest ==
    Called("accept_verification_request", NoDevice, accept_verification_request(Self))

VerificationRequestAccepted ==
    \E accepting_device \in Devices :
        Called("verification_request_accepted", accepting_device,
               verification_request_accepted(Self, accepting_device))

CancelVerification ==
    \E other_device \in Devices :
        Called("cancel_verification", other_device, cancel_verification(Self, other_device))

ProcessCancellation ==
    Called("process_cancellation", NoDevice, process_cancellation(Self))

VerificationDone ==
    Called("verification_done", NoDevice, verification_done(Self))

Next ==
    \/ RequestVerification
    \/ AcceptVerificationRequest
    \/ VerificationRequestAccepted
    \/ CancelVerification
    \/ ProcessCancellation
    \/ VerificationDone

Spec == Init /\ [][Next]_vars

(* ---- vocabulary of the properties ---- *)

Methods ==
    {"request_verification", "accept_verification_request",
     "verification_request_accepted", "cancel_verification",
     "process_cancellation", "verification_done"}

\* the last step was a call of the method op
IsCall(op) == call.op = op

Succeeded == call.op \in Methods /\ result.error = NoError

Failed == call.op \in Methods /\ result.error # NoError

AddressedTo(m, d) == m.recipient = d.user_id /\ m.recipient_device = d.id

IsCancel(m, code) == m.type = "m.key.verification.cancel" /\ m.content.code = code

\* the number of messages of the sequence msgs addressed to the device d
CountTo(msgs, d) == Cardinality({i \in 1..Len(msgs) : AddressedTo(msgs[i], d)})

\* the number of messages of the sequence msgs of the given event type
CountType(msgs, type) == Cardinality({i \in 1..Len(msgs) : msgs[i].type = type})

Roster(devs) == {devs[i] : i \in 1..Len(devs)}

Terminal == {CANCELED, DONE}

\* the order of the states: s comes strictly before t
StateBefore(s, t) ==
    \/ s = CREATED /\ t \in {REQUESTED, READY, CANCELED, DONE}
    \/ s = REQUESTED /\ t \in {READY, CANCELED, DONE}
    \/ s = READY /\ t \in {CANCELED, DONE}

(* ---- C1 ---- *)

\* C1: in every step the state either stays or moves to a state that comes
\* later in Created -> Requested -> Ready -> {Done, Canceled}; a successful
\* call that leaves the state where it was is request_verification called
\* while Requested.
C1_StateMovesForward ==
    [][/\ state' # state => StateBefore(state, state')
       /\ (state' = state /\ result'.error = NoError)
              => (call'.op = "request_verification" /\ state = REQUESTED)]_vars

C1_Witness ==
    /\ IsCall("request_verification") /\ Succeeded
    /\ pre.state = REQUESTED /\ state = REQUESTED

(* ---- C2 ---- *)

\* C2: the roster is non-empty whenever the state is Requested and has
\* exactly one element whenever the state is Ready or Done.
C2_RosterSize ==
    /\ state = REQUESTED => Len(devices) >= 1
    /\ state \in {READY, DONE} => Len(devices) = 1

C2_Witness ==
    /\ IsCall("verification_request_accepted") /\ Succeeded
    /\ Len(pre.devices) >= 2 /\ state = READY /\ Len(devices) = 1

(* ---- C3 ---- *)

\* C3: a successful verification_request_accepted(d) happens on an Initiator
\* in Requested with roster R; it leaves the roster [d] and the state Ready
\* and returns |R| - 1 messages, all cancel messages with code m.accepted,
\* exactly one to each member of R other than d and none to d.
C3_AcceptedCollapses ==
    (IsCall("verification_request_accepted") /\ Succeeded) =>
        /\ pre.we_requested_it /\ pre.state = REQUESTED
        /\ devices = <<call.arg>>
        /\ state = READY
        /\ Len(result.messages) = Len(pre.devices) - 1
        /\ \A i \in 1..Len(result.messages) : IsCancel(result.messages[i], "m.accepted")
        /\ \A d \in Roster(pre.devices) \ {call.arg} : CountTo(result.messages, d) = 1
        /\ CountTo(result.messages, call.arg) = 0
        /\ \A i, j \in 1..Len(result.messages) :
               (/\ result.messages[i].recipient = result.messages[j].recipient
                /\ result.messages[i].recipient_device = result.messages[j].recipient_device)
                   => i = j

C3_Witness ==
    /\ IsCall("verification_request_accepted") /\ Succeeded
    /\ Len(pre.devices) = 3 /\ Len(result.messages) = 2

(* ---- C4 ---- *)

\* C4: a call of any method with any argument on a transaction in Canceled
\* or Done raises, returns no message and leaves state and roster as they were.
C4_TerminalAbsorbing ==
    (call.op \in Methods /\ pre.state \in Terminal) =>
        /\ result.error # NoError
        /\ result.messages = <<>>
        /\ state = pre.state
        /\ devices = pre.devices

C4_Witness ==
    /\ IsCall("cancel_verification") /\ Failed
    /\ pre.state = DONE /\ state = DONE

(* ---- C5 ---- *)

RoleError ==
    [op \in Methods |->
        CASE op = "request_verification" ->
                 "Request was not started by us, can't start another request."
          [] op = "accept_verification_request" ->
                 "Verification request was send by us, can't accept offer."
          [] op = "verification_request_accepted" ->
                 "Request was not initialized by us, but we received an unexpected ready message."
          [] OTHER -> NoError]

\* the call was of a method reserved for the other role
OtherRolesCall ==
    \/ IsCall("accept_verification_request") /\ pre.we_requested_it
    \/ IsCall("request_verification") /\ ~pre.we_requested_it
    \/ IsCall("verification_request_accepted") /\ ~pre.we_requested_it

\* C5: a call of a method reserved for the other role raises the role error
\* of that method in every state, terminal states included, and leaves
\* state and roster as they were.
C5_RoleViolation ==
    OtherRolesCall =>
        /\ result.error = RoleError[call.op]
        /\ state = pre.state
        /\ devices = pre.devices

C5_Witness ==
    /\ IsCall("request_verification") /\ ~pre.we_requested_it
    /\ pre.state = DONE
    /\ result.error = RoleError["request_verification"]

(* ---- C6 ---- *)

\* C6: a call that raises leaves state, roster, role, own device id and
\* transaction id as they were and returns no message.
C6_ErrorLeavesUnchanged ==
    Failed =>
        /\ state = pre.state
        /\ devices = pre.devices
        /\ we_requested_it = pre.we_requested_it
        /\ own_device = pre.own_device
        /\ transaction_id = pre.transaction_id
        /\ result.messages = <<>>

C6_Witness ==
    /\ IsCall("verification_request_accepted") /\ Failed
    /\ pre.we_requested_it /\ pre.state = REQUESTED
    /\ ~Contains(pre.devices, call.arg)
    /\ Len(pre.devices) = 2

(* ---- C7 ---- *)

\* C7: verification_done succeeds exactly when the state is Ready, for
\* either role; it then leaves the state Done and returns one done message
\* addressed to the only device of the roster; called in Done it raises and
\* the state stays Done.
C7_DoneIffReady ==
    IsCall("verification_done") =>
        /\ result.error = NoError <=> pre.state = READY
        /\ result.error = NoError =>
               /\ state = DONE
               /\ Len(pre.devices) = 1
               /\ Len(result.messages) = 1
               /\ result.messages[1].type = "m.key.verification.done"
               /\ AddressedTo(result.messages[1], pre.devices[1])
        /\ pre.state = DONE => (result.error # NoError /\ state = DONE)

C7_Witness ==
    /\ IsCall("verification_done") /\ Succeeded
    /\ pre.state = READY /\ state = DONE

(* ---- C8 ---- *)

\* C8: a successful cancel_verification leaves the state Canceled and
\* returns cancel messages with code m.user, exactly one for each device of
\* the roster and none for another device; the outcome is the same for
\* every device passed as argument.
C8_CancelNotifiesRoster ==
    (IsCall("cancel_verification") /\ Succeeded) =>
        /\ state = CANCELED
        /\ Len(result.messages) = Len(pre.devices)
        /\ \A i \in 1..Len(result.messages) :
               /\ IsCancel(result.messages[i], "m.user")
               /\ \E d \in Roster(pre.devices) : AddressedTo(result.messages[i], d)
        /\ \A d \in Roster(pre.devices) : CountTo(result.messages, d) = 1
        /\ \A d \in Devices :
               cancel_verification(pre, d) = cancel_verification(pre, call.arg)

C8_Witness ==
    /\ IsCall("cancel_verification") /\ Succeeded
    /\ Len(pre.devices) = 2 /\ ~Contains(pre.devices, call.arg)
    /\ Len(result.messages) = 2

(* ---- C9 ---- *)

\* C9: a successful process_cancellation leaves the state Canceled; on an
\* Initiator it returns exactly one cancel message for each device of the
\* roster, on a Responder it returns no message.
C9_PeerCanceled ==
    (IsCall("process_cancellation") /\ Succeeded) =>
        /\ state = CANCELED
        /\ pre.we_requested_it =>
               /\ Len(result.messages) = Len(pre.devices)
               /\ \A i \in 1..Len(result.messages) :
                      result.messages[i].type = "m.key.verification.cancel"
               /\ \A d \in Roster(pre.devices) : CountTo(result.messages, d) = 1
        /\ ~pre.we_requested_it => result.messages = <<>>

C9_Witness ==
    /\ IsCall("process_cancellation") /\ Succeeded
    /\ ~pre.we_requested_it /\ Len(pre.devices) = 1
    /\ result.messages = <<>> /\ state = CANCELED

(* ---- C10 ---- *)

\* C10: a successful request_verification(d) happens on an Initiator in
\* Created or Requested; it leaves the state Requested and the roster the
\* old roster with d appended, and returns one request message addressed
\* to d; while an Initiator is Requested the roster has as many entries as
\* request messages were returned so far.
C10_RequestAppends ==
    /\ (IsCall("request_verification") /\ Succeeded) =>
           /\ pre.we_requested_it /\ pre.state \in {CREATED, REQUESTED}
           /\ state = REQUESTED
           /\ devices = Append(pre.devices, call.arg)
           /\ Len(result.messages) = 1
           /\ result.messages[1].type = "m.key.verification.request"
           /\ AddressedTo(result.messages[1], call.arg)
    /\ (we_requested_it /\ state = REQUESTED) =>
           CountType(sent, "m.key.verification.request") = Len(devices)

C10_Witness ==
    /\ IsCall("request_verification") /\ Succeeded
    /\ pre.state = REQUESTED /\ Len(pre.devices) = 2 /\ Len(devices) = 3

(* ---- C11 ---- *)

\* C11: request_verification(d) with d already on the roster raises and
\* leaves state and roster as they were (on an Initiator in Requested the
\* error is the duplicate-device one); the roster never holds a device twice.
C11_NoDuplicateDevice ==
    /\ (IsCall("request_verification") /\ Contains(pre.devices, call.arg)) =>
           /\ result.error # NoError
           /\ state = pre.state
           /\ devices = pre.devices
           /\ (pre.we_requested_it /\ pre.state = REQUESTED) =>
                  result.error = "Already requested device."
    /\ \A i, j \in 1..Len(devices) : devices[i] = devices[j] => i = j

C11_Witness ==
    /\ IsCall("request_verification") /\ Failed
    /\ pre.we_requested_it /\ pre.state = REQUESTED
    /\ Contains(pre.devices, call.arg) /\ Len(pre.devices) = 2
    /\ result.error = "Already requested device."

(* ---- C12 ---- *)

C12_State ==
    /\ call.op = "from_key_verification_request" =>
           (~we_requested_it /\ state = REQUESTED /\ devices = <<call.arg>>)
    /\ IsCall("accept_verification_request") =>
           /\ result.error = NoError <=> (~pre.we_requested_it /\ pre.state = REQUESTED)
           /\ result.error = NoError =>
                  /\ state = READY
                  /\ devices = pre.devices
                  /\ Len(result.messages) = 1
                  /\ result.messages[1].type = "m.key.verification.ready"
                  /\ AddressedTo(result.messages[1], origin.arg)

C12_Step ==
    (~we_requested_it /\ state # REQUESTED) =>
        /\ state' # REQUESTED
        /\ call'.op = "accept_verification_request" => result'.error # NoError

\* C12: a Responder starts in Requested with roster [requesting_device];
\* accept_verification_request succeeds exactly on a Responder in Requested,
\* then leaves the state Ready and the roster as it was and returns one
\* ready message addressed to the requesting device; once a Responder has
\* left Requested it never returns there and every accept call raises.
C12_ResponderAccepts == []C12_State /\ [][C12_Step]_vars

C12_Witness ==
    /\ IsCall("accept_verification_request") /\ Failed
    /\ ~pre.we_requested_it /\ pre.state = READY /\ state = READY
    /\ CountType(sent, "m.key.verification.ready") = 1

(* ---- C13 ---- *)

\* C13: verification_request_accepted(d) on an Initiator in Requested with d
\* not on the roster raises the unknown-device error, returns no message and
\* leaves state Requested and the roster as it was; on an Initiator in
\* Created it raises too.
C13_UnknownDevice ==
    (IsCall("verification_request_accepted") /\ pre.we_requested_it) =>
        /\ (pre.state = REQUESTED /\ ~Contains(pre.devices, call.arg)) =>
               /\ result.error = "Received key verification ready from unknown device."
               /\ result.messages = <<>>
               /\ state = REQUESTED
               /\ devices = pre.devices
        /\ pre.state = CREATED =>
               (result.error # NoError /\ state = CREATED /\ devices = <<>>)

C13_Witness ==
    /\ IsCall("verification_request_accepted")
    /\ pre.we_requested_it /\ pre.state = REQUESTED
    /\ Len(pre.devices) = 1 /\ ~Contains(pre.devices, call.arg)
    /\ result.error = "Received key verification ready from unknown device."

(* ---- C14 ---- *)

\* the call was cancel_verification or process_cancellation
IsCancellation == IsCall("cancel_verification") \/ IsCall("process_cancellation")

\* C14 as stated: on an Initiator in Created cancel_verification and
\* process_cancellation raise and leave the state Created.
C14_Original ==
    (IsCancellation /\ pre.we_requested_it /\ pre.state = CREATED) =>
        (result.error # NoError /\ state = CREATED)

\* C14: cancel_verification and process_cancellation succeed from every
\* state other than Canceled and Done and raise in those two; on an
\* Initiator in Created they succeed, return no message and leave the
\* state Canceled and the roster empty.
C14_CancelFromCreated ==
    IsCancellation =>
        /\ result.error = NoError <=> pre.state \notin Terminal
        /\ (pre.we_requested_it /\ pre.state = CREATED) =>
               /\ result.error = NoError
               /\ result.messages = <<>>
               /\ state = CANCELED
               /\ devices = <<>>

C14_Witness ==
    /\ IsCall("cancel_verification") /\ Succeeded
    /\ pre.we_requested_it /\ pre.state = CREATED
    /\ state = CANCELED /\ result.messages = <<>>

(* ---- C15 ---- *)

\* C15: role, transaction id and own device id are those the constructor
\* set, in every state, and every message returned so far carries the
\* transaction id.
C15_IdentityFixed ==
    /\ we_requested_it = origin.self.we_requested_it
    /\ transaction_id = origin.self.transaction_id
    /\ own_device = origin.self.own_device
    /\ \A i \in 1..Len(sent) : sent[i].content.transaction_id = origin.self.transaction_id

C15_Witness ==
    /\ state = DONE /\ we_requested_it
    /\ CountType(sent, "m.key.verification.request") = 2
    /\ CountType(sent, "m.key.verification.cancel") = 1
    /\ CountType(sent, "m.key.verification.done") = 1

(* ---- C16 ---- *)

\* an Initiator that has confirmed a device, or is canceled
Settled == we_requested_it /\ state \in {READY, DONE, CANCELED}

C16_Step ==
    Settled =>
        /\ Settled'
        /\ devices' = devices
        /\ call'.op = "verification_request_accepted" => result'.error # NoError
        /\ (call'.op = "verification_done" /\ result'.error = NoError) =>
               AddressedTo(result'.messages[1], devices[1])

\* C16: an Initiator in Ready has a roster of exactly one device d; from
\* then on every verification_request_accepted call raises, the roster
\* stays [d] in every later state, and the done message is addressed to d.
C16_FirstResponderWins ==
    [](we_requested_it /\ state = READY => Len(devices) = 1) /\ [][C16_Step]_vars

C16_Witness ==
    /\ IsCall("verification_request_accepted") /\ Failed
    /\ pre.we_requested_it /\ pre.state = READY
    /\ call.arg = pre.devices[1]
    /\ state = READY /\ devices = pre.devices

(* ---- C18 ---- *)

IsClosing(m) == m.type \in {"m.key.verification.cancel", "m.key.verification.done"}

\* the number of cancel and done messages returned so far for the device d
ClosingTo(d) ==
    Cardinality({i \in 1..Len(sent) : IsClosing(sent[i]) /\ AddressedTo(sent[i], d)})

\* the number of request messages returned so far for the device d
RequestsTo(d) ==
    Cardinality({i \in 1..Len(sent) :
                    sent[i].type = "m.key.verification.request" /\ AddressedTo(sent[i], d)})

\* C18: on an Initiator every device was sent at most one cancel or done
\* message, none without a request before it, and exactly one once the
\* transaction is Canceled or Done and the device was sent a request.
C18_OneClosingMessage ==
    we_requested_it =>
        /\ \A i \in 1..Len(sent) : \E d \in Devices : AddressedTo(sent[i], d)
        /\ \A d \in Devices :
               /\ ClosingTo(d) <= 1
               /\ ClosingTo(d) > 0 => RequestsTo(d) >= 1
               /\ (state \in Terminal /\ RequestsTo(d) >= 1) => ClosingTo(d) = 1

C18_Witness ==
    /\ we_requested_it /\ state = CANCELED
    /\ IsCall("process_cancellation") /\ pre.state = READY
    /\ \A d \in Devices : RequestsTo(d) = 1 /\ ClosingTo(d) = 1

(* ---- C19 ---- *)

\* C19: the roster of a Responder is [requesting_device] in every state;
\* accept_verification_request and verification_done never find the roster
\* empty; a Responder returns no request message and no cancel message
\* with code m.accepted.
C19_ResponderRoster ==
    ~we_requested_it =>
        /\ origin.op = "from_key_verification_request"
        /\ devices = <<origin.arg>>
        /\ result.error # "IndexError"
        /\ \A i \in 1..Len(sent) :
               /\ sent[i].type # "m.key.verification.request"
               /\ ~IsCancel(sent[i], "m.accepted")

C19_Witness ==
    /\ ~we_requested_it /\ state = CANCELED
    /\ IsCall("cancel_verification") /\ Succeeded /\ pre.state = READY
    /\ Len(sent) = 2 /\ devices = <<origin.arg>>

(* ---- C17 ---- *)

\* every message returned so far has been delivered
Quiescent == net = <<>>

\* the Initiator is Ready with the device of the Responder p as its roster
ConfirmedByInitiator(p) ==
    kvfs["A"].state = READY /\ kvfs["A"].devices = <<PartyDevice[p]>>

\* C17 as stated: when every message is delivered at most one Responder is
\* in Ready or Done and it is the one the Initiator confirmed.
C17_Original ==
    Quiescent =>
        /\ Cardinality({p \in Responders : kvfs[p].state \in {READY, DONE}}) <= 1
        /\ \A p \in Responders :
               kvfs[p].state \in {READY, DONE} => ConfirmedByInitiator(p)

\* C17: when every message is delivered at most one Responder is in Ready
\* and it is the one the Initiator confirmed.
C17_OneReadyResponder ==
    Quiescent =>
        /\ Cardinality({p \in Responders : kvfs[p].state = READY}) <= 1
        /\ \A p \in Responders : kvfs[p].state = READY => ConfirmedByInitiator(p)

C17_Witness ==
    /\ Quiescent
    /\ kvfs["B1"].state = DONE
    /\ kvfs["B2"].state = READY
    /\ ConfirmedByInitiator("B2")

====
